---------------------------- MODULE Spec2Model ----------------------------
(***************************************************************************)
(* A model of Python_Scripts/CategorizeFeatureGeometry.py.                 *)
(*                                                                         *)
(* One run is one construction of CategorizeFeatureGeometry: the           *)
(* constructor derives the configuration, then issues a fixed sequence of  *)
(* geoprocessing calls.  Every call is one step of the run; a call that    *)
(* raises ends the run, because the constructor catches nothing.           *)
(*                                                                         *)
(* Text is a sequence of one-character strings, so that replace, strip,    *)
(* slicing, substring tests and wildcard matching are computed.  Geometry  *)
(* is a set of cells of a small grid: two geometries intersect when they   *)
(* share a cell, clip is intersection, erase is difference and dissolve is *)
(* union.  A feature class is a sequence of rows; a workspace maps the     *)
(* path of each feature class to its rows.                                 *)
(***************************************************************************)
EXTENDS Integers, Sequences, FiniteSets, TLC

VARIABLES now, cfg, pc, err, self, key, disk, mem, layers, cleaned

vars == <<now, cfg, pc, err, self, key, disk, mem, layers, cleaned>>

(***************************************************************************)
(* Bounds of the model.                                                    *)
(***************************************************************************)
MaxClock == 1
NumCells == 3
MaxTargets == 2
MaxDivisions == 2
MaxNameLen == 3

Runs == {1, 2}
Cells == 1..NumCells

(***************************************************************************)
(* Text.                                                                   *)
(***************************************************************************)
Digits == {"0", "1", "2", "3", "4", "5", "6", "7", "8", "9"}

\* string.punctuation.replace('_', ''), but for the backquote, which a string
\* of this language cannot hold
Punctuation ==
    {"!", "\"", "#", "$", "%", "&", "'", "(", ")", "*", "+", ",", "-", ".",
     "/", ":", ";", "<", "=", ">", "?", "@", "[", "\\", "]", "^", "{", "|",
     "}", "~"}

\* s.replace(c, '') for a one-character c
RemoveChar(s, c) == SelectSeq(s, LAMBDA x : x # c)

RECURSIVE ReplaceChar(_, _, _)
\* s.replace(c, t) for a one-character c and a text t
ReplaceChar(s, c, t) ==
    IF s = <<>> THEN <<>>
    ELSE IF Head(s) = c THEN t \o ReplaceChar(Tail(s), c, t)
    ELSE <<Head(s)>> \o ReplaceChar(Tail(s), c, t)

\* s[:n]
Truncate(s, n) == IF Len(s) <= n THEN s ELSE SubSeq(s, 1, n)

StartsWith(s, p) == Len(p) <= Len(s) /\ SubSeq(s, 1, Len(p)) = p

\* sub in s
Contains(s, sub) ==
    \E i \in 1..(Len(s) - Len(sub) + 1) : SubSeq(s, i, i + Len(sub) - 1) = sub

RECURSIVE Lstrip(_, _)
\* s.lstrip(chars)
Lstrip(s, chars) ==
    IF s # <<>> /\ Head(s) \in chars THEN Lstrip(Tail(s), chars) ELSE s

RECURSIVE Rstrip(_, _)
\* s.rstrip(chars)
Rstrip(s, chars) ==
    IF s # <<>> /\ s[Len(s)] \in chars
    THEN Rstrip(SubSeq(s, 1, Len(s) - 1), chars)
    ELSE s

DigitChar(d) ==
    <<"0", "1", "2", "3", "4", "5", "6", "7", "8", "9",
      "a", "b", "c", "d", "e", "f">>[d + 1]

RECURSIVE Dec(_)
\* '{}'.format(n) for a natural number n
Dec(n) == IF n < 10 THEN <<DigitChar(n)>> ELSE Dec(n \div 10) \o <<DigitChar(n % 10)>>

(***************************************************************************)
(* The run's timestamp: the UTC time to the second, written as fourteen    *)
(* decimal digits, read as an integer and written in hexadecimal.  The     *)
(* integer exceeds the checker's integers, so it is kept as its digits.    *)
(***************************************************************************)
\* datetime.datetime.utcnow().strftime('%Y%m%d%H%M%S') at `t` seconds
\* past 2018-02-14 12:00:00
Strftime(t) == <<2, 0, 1, 8, 0, 2, 1, 4, 1, 2, 0, 0, t \div 10, t % 10>>

RECURSIVE DivRem16(_, _)
\* long division of the decimal digits `ds` by 16, `carry` brought down:
\* <<the quotient's digits, the remainder>>
DivRem16(ds, carry) ==
    IF ds = <<>> THEN <<<<>>, carry>>
    ELSE LET cur  == carry * 10 + Head(ds)
             rest == DivRem16(Tail(ds), cur % 16)
         IN  <<(<<cur \div 16>>) \o rest[1], rest[2]>>

RECURSIVE HexDigits(_)
\* the hexadecimal digits of the number with decimal digits `ds`
HexDigits(ds) ==
    IF \A i \in 1..Len(ds) : ds[i] = 0 THEN <<>>
    ELSE LET qr == DivRem16(ds, 0)
         IN  HexDigits(qr[1]) \o <<DigitChar(qr[2])>>

\* hex(int(text)) of a Python 2 long: '0x', the digits, 'L'
HexOfLong(ds) == <<"0", "x">> \o HexDigits(ds) \o <<"L">>

\* __create_timestamp
CreateTimestamp(t) == Lstrip(Rstrip(HexOfLong(Strftime(t)), {"L"}), {"0", "x"})

\* the timestamp of each second of the clock
TimestampAt == [t \in 0..(MaxClock + 1) |-> CreateTimestamp(t)]

(***************************************************************************)
(* Output field name.                                                      *)
(***************************************************************************)
in_memory == <<"i", "n", "_", "m", "e", "m", "o", "r", "y">>
DotGdb == <<".", "g", "d", "b">>
DotShp == <<".", "s", "h", "p">>
FieldPrefix == <<"F", "i", "e", "l", "d", "_">>
LongNameLimit == 64
ShortNameLimit == 10

\* string.punctuation, in its order, without the underscore
PunctuationOrder ==
    <<"!", "\"", "#", "$", "%", "&", "'", "(", ")", "*", "+", ",", "-", ".",
      "/", ":", ";", "<", "=", ">", "?", "@", "[", "\\", "]", "^", "{", "|",
      "}", "~">>

RECURSIVE StripPunctuation(_, _)
\* for i in string.punctuation.replace('_',''): name = name.replace(i, '')
StripPunctuation(name, i) ==
    IF i > Len(PunctuationOrder) THEN name
    ELSE StripPunctuation(RemoveChar(name, PunctuationOrder[i]), i + 1)

FieldNameLimitNoShp(workspace, output_features) ==
    IF workspace = in_memory \/ Contains(workspace, DotGdb)
    THEN LongNameLimit
    ELSE ShortNameLimit

\* the slice bound of __validate_output_field_name
FieldNameLimit(workspace, output_features) ==
    IF (workspace = in_memory \/ Contains(workspace, DotGdb))
       /\ ~Contains(output_features, DotShp)
    THEN LongNameLimit
    ELSE ShortNameLimit

\* __validate_output_field_name: the new self.output_field, or an IndexError
\* when nothing is left for output_field[0]
ValidateOutputFieldName(output_field, workspace, output_features) ==
    LET stripped == StripPunctuation(output_field, 1)
    IN  IF stripped = <<>> THEN [raised |-> TRUE, name |-> <<>>]
        ELSE LET prefixed == IF stripped[1] \in Digits
                             THEN FieldPrefix \o stripped
                             ELSE stripped
                 spaced   == IF Contains(prefixed, <<" ">>)
                             THEN ReplaceChar(prefixed, " ", <<"_">>)
                             ELSE prefixed
             IN  [raised |-> FALSE,
                  name   |-> Truncate(spaced,
                                      FieldNameLimit(workspace, output_features))]

(***************************************************************************)
(* Feature classes, layers and the workspaces that hold them.              *)
(*                                                                         *)
(* A row is [geom, attr, cat]: its geometry, its attributes other than the *)
(* category field, and the category field's value (Null while unset).  A   *)
(* feature class is [rows, hasfield]: hasfield says whether the category   *)
(* field has been added to its schema.  A layer is [source, selected,      *)
(* ids]: the path it reads and, when selected, the rows it is cut down to. *)
(*                                                                         *)
(* A relative name resolves against arcpy.env.workspace.  A path under     *)
(* in_memory lives in the run's own process (mem); any other path lives in *)
(* storage every run shares (disk).  Layers live in the run's process.     *)
(***************************************************************************)
Null == <<"NULL">>

Join(workspace, name) == workspace \o <<"/">> \o name

InMemoryPath(path) == StartsWith(path, in_memory)

\* what run r's process sees
World(r) == [disk |-> disk, mem |-> mem[r], layers |-> layers[r]]

StoreOf(w, path) == IF InMemoryPath(path) THEN w.mem ELSE w.disk

\* arcpy.Exists
Exists(w, path) == path \in DOMAIN StoreOf(w, path)

Read(w, path) == StoreOf(w, path)[path]

Put(store, path, fc) ==
    [p \in DOMAIN store \cup {path} |-> IF p = path THEN fc ELSE store[p]]

Remove(store, paths) == [p \in DOMAIN store \ paths |-> store[p]]

Write(w, path, fc) ==
    IF InMemoryPath(path)
    THEN [w EXCEPT !.mem = Put(@, path, fc)]
    ELSE [w EXCEPT !.disk = Put(@, path, fc)]

\* the directory and the base name of a path
RECURSIVE LastSlash(_, _)
LastSlash(path, i) ==
    IF i = 0 THEN 0 ELSE IF path[i] = "/" THEN i ELSE LastSlash(path, i - 1)

DirName(path) ==
    LET i == LastSlash(path, Len(path))
    IN  IF i <= 1 THEN <<>> ELSE SubSeq(path, 1, i - 1)

BaseName(path) == SubSeq(path, LastSlash(path, Len(path)) + 1, Len(path))

RECURSIVE PickFrom(_, _, _)
\* the rows of `rows` whose index is in `ids`, in order
PickFrom(rows, ids, i) ==
    IF i > Len(rows) THEN <<>>
    ELSE (IF i \in ids THEN <<rows[i]>> ELSE <<>>) \o PickFrom(rows, ids, i + 1)

\* the rows a tool reads through a layer: all of its source, or its selection
LayerRows(w, lyr) ==
    LET l  == w.layers[lyr]
        fc == Read(w, l.source)
    IN  IF l.selected THEN PickFrom(fc.rows, l.ids, 1) ELSE fc.rows

LayerUsable(w, lyr) ==
    lyr \in DOMAIN w.layers /\ Exists(w, w.layers[lyr].source)

UnionGeom(rows) == UNION {rows[i].geom : i \in 1..Len(rows)}

(***************************************************************************)
(* The geometry engine's operations, on rows.                              *)
(***************************************************************************)
\* Select_analysis's where clause: a text literal in quotes with each quote
\* inside doubled, or a number as written
SqlLiteralValue(criteria, field_type) ==
    IF field_type = "STRING"
    THEN LET inner == SubSeq(criteria, 2, Len(criteria) - 1)
             RECURSIVE Undouble(_)
             Undouble(t) ==
                 IF t = <<>> THEN <<>>
                 ELSE IF Len(t) >= 2 /\ t[1] = "'" /\ t[2] = "'"
                      THEN <<"'">> \o Undouble(SubSeq(t, 3, Len(t)))
                      ELSE <<Head(t)>> \o Undouble(Tail(t))
         IN  Undouble(inner)
    ELSE criteria

\* Select_analysis(in_features, out, '<field> = <criteria>')
SelectWhere(rows, criteria, field_type) ==
    SelectSeq(rows, LAMBDA x : x.attr = SqlLiteralValue(criteria, field_type))

ClipKeepsAll(rows, clip_rows) == rows

\* Clip_analysis: each input feature cut to the clip features' area; a
\* feature with nothing inside is dropped
Clip(rows, clip_rows) ==
    LET area == UnionGeom(clip_rows)
        cut  == [i \in 1..Len(rows) |-> [rows[i] EXCEPT !.geom = @ \cap area]]
    IN  SelectSeq(cut, LAMBDA x : x.geom # {})

\* Erase_analysis: each input feature less the erase features' area; a
\* feature with nothing left is dropped
Erase(rows, erase_rows) ==
    LET area == UnionGeom(erase_rows)
        cut  == [i \in 1..Len(rows) |-> [rows[i] EXCEPT !.geom = @ \ area]]
    IN  SelectSeq(cut, LAMBDA x : x.geom # {})

\* SelectLayerByLocation_management(layer, 'INTERSECT', select_features),
\* a new selection: the rows that share geometry with a select feature
IntersectingIds(rows, select_rows) ==
    {i \in 1..Len(rows) : rows[i].geom \cap UnionGeom(select_rows) # {}}

\* CalculateField_management(table, field, 'r"<category>"', 'PYTHON_9.3'):
\* the value of the Python raw-string literal; a double quote inside the
\* category ends the literal early and the expression does not parse
ExpressionParses(category) == ~Contains(category, <<"\"">>)

CalculateField(rows, category) ==
    [i \in 1..Len(rows) |-> [rows[i] EXCEPT !.cat = category]]

DissolveKey(x) == <<x.attr, x.cat>>

DissolveNoMerge(rows) == rows

\* Dissolve_management(in, out, dissolve_field = every field that is not
\* Geometry, GlobalID, GUID or OID): one feature for each distinct tuple of
\* those fields, in the order the tuples first appear, its geometry the
\* union of the group's
Dissolve(rows) ==
    LET idx    == [i \in 1..Len(rows) |-> i]
        firsts == SelectSeq(idx, LAMBDA i :
                      \A j \in 1..(i - 1) : DissolveKey(rows[j]) # DissolveKey(rows[i]))
    IN  [k \in 1..Len(firsts) |->
            [rows[firsts[k]] EXCEPT !.geom =
                UNION {rows[j].geom : j \in {j \in 1..Len(rows) :
                           DissolveKey(rows[j]) = DissolveKey(rows[firsts[k]])}}]]

RECURSIVE Glob(_, _)
\* whether the name matches the wild card, '*' standing for any text
Glob(pattern, name) ==
    IF pattern = <<>> THEN name = <<>>
    ELSE IF Head(pattern) = "*"
         THEN Glob(Tail(pattern), name)
              \/ (name # <<>> /\ Glob(pattern, Tail(name)))
         ELSE name # <<>> /\ Head(name) = Head(pattern)
              /\ Glob(Tail(pattern), Tail(name))

\* ListFeatureClasses(wild_card): the feature classes of the current
\* workspace whose name matches; layers are not feature classes
ListFeatureClasses(w, workspace, wild_card) ==
    {p \in DOMAIN StoreOf(w, Join(workspace, <<>>)) :
        DirName(p) = workspace /\ Glob(wild_card, BaseName(p))}

(***************************************************************************)
(* The names of the run's intermediate data.                               *)
(***************************************************************************)
TmpPrefix == <<"t", "m", "p", "_">>
Rep == <<"r", "e", "p">>
Lyr == <<"l", "y", "r">>
Cat == <<"c", "a", "t">>
Div == <<"d", "i", "v">>
SelLyr == <<"s", "e", "l", "_", "l", "y", "r">>
UncFea == <<"u", "n", "c", "_", "f", "e", "a">>
Out == <<"o", "u", "t">>
Ded == <<"d", "e", "d">>

\* 'tmp_<kind>_{}'.format(timestamp)
ScratchName(kind, timestamp) == TmpPrefix \o kind \o <<"_">> \o timestamp

\* 'tmp_<kind>_{}_{}'.format(i, timestamp)
IndexedName(kind, i, timestamp) ==
    TmpPrefix \o kind \o <<"_">> \o Dec(i) \o <<"_">> \o timestamp

WildCardAnyTmp(timestamp) == TmpPrefix \o <<"*">>

\* 'tmp_*{}*'.format(self.timestamp)
WildCard(timestamp) == TmpPrefix \o <<"*">> \o timestamp \o <<"*">>

(***************************************************************************)
(* The constructor's derivations.                                          *)
(***************************************************************************)
\* arcpy.ListFields(division_features): the object id, the shape and the
\* one attribute field, ZONE, of the division dataset
DivisionFields(zone_type) ==
    <<[name |-> "OBJECTID", type |-> "OID", length |-> 4, precision |-> 0,
       scale |-> 0],
      [name |-> "Shape", type |-> "Geometry", length |-> 0, precision |-> 0,
       scale |-> 0],
      [name |-> "ZONE", type |-> zone_type,
       length |-> IF zone_type = "String" THEN 50 ELSE 4, precision |-> 0,
       scale |-> 0]>>

HasField(fields, name) == \E i \in 1..Len(fields) : fields[i].name = name

\* target_row.getValue(division_field)
GetValue(rows, i, field) ==
    CASE field = "OBJECTID" -> i
      [] field = "Shape"    -> rows[i].geom
      [] field = "ZONE"     -> rows[i].attr

\* __get_unique_attributes
GetUniqueAttributes(rows, field) ==
    {GetValue(rows, i, field) : i \in 1..Len(rows)}

\* list(self.attribute_set): a set has no order of its own; any one order,
\* the same at every use within the run
Orderings(S) ==
    {f \in [1..Cardinality(S) -> S] :
        \A i, j \in 1..Cardinality(S) : f[i] = f[j] => i = j}

\* __get_division_field_properties: the properties of the field of that
\* name, or None
GetDivisionFieldProperties(fields, division_field) ==
    IF HasField(fields, division_field)
    THEN LET f == CHOOSE f \in {fields[i] : i \in 1..Len(fields)} :
                      f.name = division_field
         IN  [found |-> TRUE,
              props |-> [k \in {"field_name", "field_type", "field_length",
                                "field_precision", "field_scale"} |->
                            CASE k = "field_name"      -> f.name
                              [] k = "field_type"      -> f.type
                              [] k = "field_length"    -> f.length
                              [] k = "field_precision" -> f.precision
                              [] k = "field_scale"     -> f.scale]]
    ELSE [found |-> FALSE, props |-> <<>>]

\* str.upper on a field type
Upper(type) ==
    CASE type = "String"   -> "STRING"
      [] type = "Integer"  -> "INTEGER"
      [] type = "OID"      -> "OID"
      [] type = "Geometry" -> "GEOMETRY"

\* __set_output_field_properties
SetOutputFieldProperties(props, output_field) ==
    LET numeric == {"field_length", "field_precision", "field_scale"}
        zero    == {k \in DOMAIN props \cap numeric : props[k] = 0}
    IN  [k \in DOMAIN props \ zero |->
            IF k = "field_type" THEN Upper(props[k])
            ELSE IF k = "field_name" THEN output_field
            ELSE props[k]]

\* __create_parameter_dictionary, over one order of the attribute set; the
\* plan of Python key i is element i + 1
CreateParameterDictionary(order, timestamp) ==
    [k \in 1..Len(order) |->
        [category      |-> order[k],
         category_file |-> IndexedName(Cat, k - 1, timestamp),
         division_file |-> IndexedName(Div, k - 1, timestamp),
         criteria      |-> order[k]]]

\* __validate_criteria
ValidateCriteria(parameter_dictionary, field_type) ==
    IF field_type = "STRING"
    THEN [k \in 1..Len(parameter_dictionary) |->
            [parameter_dictionary[k] EXCEPT !.criteria =
                <<"'">> \o ReplaceChar(@, "'", <<"'", "'">>) \o <<"'">>]]
    ELSE parameter_dictionary

\* AddField_management's field_type: no field of the object id or geometry
\* type can be added
AddFieldAccepts(field_type) == field_type \notin {"OID", "GEOMETRY"}

NoSelf ==
    [timestamp |-> <<>>, parameter_dictionary |-> <<>>, output_field |-> <<>>,
     output_field_properties |-> <<>>]

EmptyStore == [p \in {} |-> <<>>]

(***************************************************************************)
(* The run.                                                                *)
(***************************************************************************)
ScratchPath(r, kind) ==
    Join(cfg[r].workspace, ScratchName(kind, self[r].timestamp))

TargetLayer(r) == ScratchName(Lyr, self[r].timestamp)

SelectLayer(r) == ScratchName(SelLyr, self[r].timestamp)

TemporaryOutputIsOutput(r) == cfg[r].output_features

\* temporary_output = 'tmp_out_{}'.format(self.timestamp)
TemporaryOutput(r) == ScratchPath(r, Out)

Plan(r) == self[r].parameter_dictionary[key[r] + 1]

CategoryFile(r) == Join(cfg[r].workspace, Plan(r).category_file)

DivisionFile(r) == Join(cfg[r].workspace, Plan(r).division_file)

\* where the run goes once k plans are done: the next plan, or what follows
\* the loop
AfterPlan(r, k) ==
    IF k < Len(self[r].parameter_dictionary) THEN "select"
    ELSE IF cfg[r].include_uncategorized THEN "clear_selection"
    ELSE "dissolve"

\* an exception leaves the constructor: nothing catches it
Raise(r, kind) ==
    /\ pc' = [pc EXCEPT ![r] = "aborted"]
    /\ err' = [err EXCEPT ![r] = kind]
    /\ UNCHANGED <<now, cfg, self, key, disk, mem, layers, cleaned>>

Proceed(r, next, w, k) ==
    /\ pc' = [pc EXCEPT ![r] = next]
    /\ disk' = w.disk
    /\ mem' = [mem EXCEPT ![r] = w.mem]
    /\ layers' = [layers EXCEPT ![r] = w.layers]
    /\ key' = [key EXCEPT ![r] = k]
    /\ UNCHANGED <<now, cfg, err, self, cleaned>>

\* __init__ up to __validate_criteria: no geoprocessing tool is run yet
Construct(r) ==
    /\ pc[r] = "init"
    /\ LET c         == cfg[r]
           timestamp == TimestampAt[now]
           fields    == DivisionFields(c.division_features.zone_type)
           known     == HasField(fields, c.division_field)
           rows      == c.division_features.rows
           fail(kind) ==
               /\ pc' = [pc EXCEPT ![r] = "aborted"]
               /\ err' = [err EXCEPT ![r] = kind]
               /\ self' = [self EXCEPT ![r] = [NoSelf EXCEPT !.timestamp = timestamp]]
               /\ UNCHANGED <<now, cfg, key, disk, mem, layers, cleaned>>
       IN  IF ~known /\ rows # <<>>
           THEN fail("RuntimeError")
           ELSE \E order \in Orderings(IF known
                                       THEN GetUniqueAttributes(rows, c.division_field)
                                       ELSE {}) :
                LET plans == CreateParameterDictionary(order, timestamp)
                    dprop == GetDivisionFieldProperties(fields, c.division_field)
                    name  == ValidateOutputFieldName(c.output_field, c.workspace,
                                                     c.output_features)
                IN  IF name.raised THEN fail("IndexError")
                    ELSE IF ~dprop.found THEN fail("TypeError")
                    ELSE LET oprop == SetOutputFieldProperties(dprop.props, name.name)
                         IN  /\ self' = [self EXCEPT ![r] =
                                   [timestamp |-> timestamp,
                                    parameter_dictionary |->
                                        ValidateCriteria(plans, oprop["field_type"]),
                                    output_field |-> name.name,
                                    output_field_properties |-> oprop]]
                             /\ pc' = [pc EXCEPT ![r] = "copy_target"]
                             /\ UNCHANGED <<now, cfg, err, key, disk, mem, layers,
                                            cleaned>>

\* __create_target_layer: CopyFeatures_management(target_features, tmp_rep)
CopyTarget(r) ==
    /\ pc[r] = "copy_target"
    /\ LET w   == World(r)
           out == ScratchPath(r, Rep)
       IN  IF Exists(w, out) THEN Raise(r, "ExecuteError")
           ELSE Proceed(r, "make_layer",
                        Write(w, out, [rows |-> cfg[r].target_features,
                                       hasfield |-> FALSE]),
                        key[r])

\* __create_target_layer: MakeFeatureLayer_management(tmp_rep, tmp_lyr)
MakeTargetLayer(r) ==
    /\ pc[r] = "make_layer"
    /\ LET w   == World(r)
           src == ScratchPath(r, Rep)
       IN  IF ~Exists(w, src) \/ TargetLayer(r) \in DOMAIN w.layers
           THEN Raise(r, "ExecuteError")
           ELSE Proceed(r, "add_field",
                        [w EXCEPT !.layers =
                            Put(@, TargetLayer(r),
                                [source |-> src, selected |-> FALSE, ids |-> {}])],
                        key[r])

\* __add_category_field: AddField_management(target_layer, **properties)
AddCategoryField(r) ==
    /\ pc[r] = "add_field"
    /\ LET w == World(r)
       IN  IF ~LayerUsable(w, TargetLayer(r))
              \/ ~AddFieldAccepts(self[r].output_field_properties["field_type"])
           THEN Raise(r, "ExecuteError")
           ELSE LET src == w.layers[TargetLayer(r)].source
                IN  Proceed(r, AfterPlan(r, 0),
                            Write(w, src, [Read(w, src) EXCEPT !.hasfield = TRUE]),
                            0)

\* Select_analysis(division_features, division_file, '<field> = <criteria>')
SelectDivision(r) ==
    /\ pc[r] = "select"
    /\ LET w   == World(r)
           out == DivisionFile(r)
       IN  IF Exists(w, out) THEN Raise(r, "ExecuteError")
           ELSE Proceed(r, IF ~cfg[r].overrun THEN "clip" ELSE "select_by_location",
                        Write(w, out,
                              [rows |-> SelectWhere(
                                            cfg[r].division_features.rows,
                                            Plan(r).criteria,
                                            self[r].output_field_properties["field_type"]),
                               hasfield |-> FALSE]),
                        key[r])

\* not overrun: Clip_analysis(target_layer, division_file, category_file)
ClipTarget(r) ==
    /\ pc[r] = "clip"
    /\ LET w == World(r)
       IN  IF ~LayerUsable(w, TargetLayer(r)) \/ ~Exists(w, DivisionFile(r))
              \/ Exists(w, CategoryFile(r))
           THEN Raise(r, "ExecuteError")
           ELSE Proceed(r, "calculate",
                        Write(w, CategoryFile(r),
                              [rows |-> Clip(LayerRows(w, TargetLayer(r)),
                                             Read(w, DivisionFile(r)).rows),
                               hasfield |->
                                   Read(w, w.layers[TargetLayer(r)].source).hasfield]),
                        key[r])

\* overrun: SelectLayerByLocation_management(target_layer, 'INTERSECT',
\* division_file), a new selection among all the layer's features
SelectByLocation(r) ==
    /\ pc[r] = "select_by_location"
    /\ LET w == World(r)
       IN  IF ~LayerUsable(w, TargetLayer(r)) \/ ~Exists(w, DivisionFile(r))
           THEN Raise(r, "ExecuteError")
           ELSE LET l == w.layers[TargetLayer(r)]
                IN  Proceed(r, "make_select_layer",
                        [w EXCEPT !.layers =
                            Put(@, TargetLayer(r),
                                [l EXCEPT !.selected = TRUE,
                                          !.ids = IntersectingIds(
                                                      Read(w, l.source).rows,
                                                      Read(w, DivisionFile(r)).rows)])],
                        key[r])

\* overrun: MakeFeatureLayer_management(target_layer, tmp_sel_lyr): the new
\* layer holds the features selected in target_layer
MakeSelectLayer(r) ==
    /\ pc[r] = "make_select_layer"
    /\ LET w == World(r)
       IN  IF ~LayerUsable(w, TargetLayer(r)) \/ SelectLayer(r) \in DOMAIN w.layers
           THEN Raise(r, "ExecuteError")
           ELSE Proceed(r, "copy_selection",
                        [w EXCEPT !.layers =
                            Put(@, SelectLayer(r), w.layers[TargetLayer(r)])],
                        key[r])

\* overrun: CopyFeatures_management(tmp_sel_lyr, category_file)
CopySelection(r) ==
    /\ pc[r] = "copy_selection"
    /\ LET w == World(r)
       IN  IF ~LayerUsable(w, SelectLayer(r)) \/ Exists(w, CategoryFile(r))
           THEN Raise(r, "ExecuteError")
           ELSE Proceed(r, "delete_select_layer",
                        Write(w, CategoryFile(r),
                              [rows |-> LayerRows(w, SelectLayer(r)),
                               hasfield |->
                                   Read(w, w.layers[SelectLayer(r)].source).hasfield]),
                        key[r])

\* overrun: Delete_management(tmp_sel_lyr)
DeleteSelectLayer(r) ==
    /\ pc[r] = "delete_select_layer"
    /\ LET w == World(r)
       IN  IF SelectLayer(r) \notin DOMAIN w.layers THEN Raise(r, "ExecuteError")
           ELSE Proceed(r, "calculate",
                        [w EXCEPT !.layers = Remove(@, {SelectLayer(r)})],
                        key[r])

\* CalculateField_management(category_file, field, 'r"<category>"')
CalculateCategory(r) ==
    /\ pc[r] = "calculate"
    /\ LET w == World(r)
       IN  IF ~Exists(w, CategoryFile(r)) THEN Raise(r, "ExecuteError")
           ELSE LET fc == Read(w, CategoryFile(r))
                IN  IF ~fc.hasfield \/ ~ExpressionParses(Plan(r).category)
                    THEN Raise(r, "ExecuteError")
                    ELSE Proceed(r, "accumulate",
                                 Write(w, CategoryFile(r),
                                       [fc EXCEPT !.rows =
                                           CalculateField(@, Plan(r).category)]),
                                 key[r])

\* if not arcpy.Exists(temporary_output): CopyFeatures_management(
\* category_file, temporary_output); else: Append_management(category_file,
\* temporary_output), the schemas tested
AccumulateSlice(r) ==
    /\ pc[r] = "accumulate"
    /\ LET w == World(r)
       IN  IF ~Exists(w, CategoryFile(r)) THEN Raise(r, "ExecuteError")
           ELSE LET slice == Read(w, CategoryFile(r))
                IN  IF ~Exists(w, TemporaryOutput(r))
                    THEN Proceed(r, AfterPlan(r, key[r] + 1),
                                 Write(w, TemporaryOutput(r), slice), key[r] + 1)
                    ELSE LET acc == Read(w, TemporaryOutput(r))
                         IN  IF acc.hasfield # slice.hasfield
                             THEN Raise(r, "ExecuteError")
                             ELSE Proceed(r, AfterPlan(r, key[r] + 1),
                                          Write(w, TemporaryOutput(r),
                                                [acc EXCEPT !.rows = @ \o slice.rows]),
                                          key[r] + 1)

\* include_uncategorized: SelectLayerByAttribute_management(target_layer,
\* 'CLEAR_SELECTION')
ClearSelection(r) ==
    /\ pc[r] = "clear_selection"
    /\ LET w == World(r)
       IN  IF ~LayerUsable(w, TargetLayer(r)) THEN Raise(r, "ExecuteError")
           ELSE Proceed(r, "erase",
                        [w EXCEPT !.layers =
                            Put(@, TargetLayer(r),
                                [w.layers[TargetLayer(r)] EXCEPT
                                    !.selected = FALSE, !.ids = {}])],
                        key[r])

\* include_uncategorized: Erase_analysis(target_layer, temporary_output,
\* tmp_unc_fea)
EraseCategorized(r) ==
    /\ pc[r] = "erase"
    /\ LET w == World(r)
       IN  IF ~LayerUsable(w, TargetLayer(r)) \/ ~Exists(w, TemporaryOutput(r))
              \/ Exists(w, ScratchPath(r, UncFea))
           THEN Raise(r, "ExecuteError")
           ELSE Proceed(r, "append_uncategorized",
                        Write(w, ScratchPath(r, UncFea),
                              [rows |-> Erase(LayerRows(w, TargetLayer(r)),
                                              Read(w, TemporaryOutput(r)).rows),
                               hasfield |->
                                   Read(w, w.layers[TargetLayer(r)].source).hasfield]),
                        key[r])

\* include_uncategorized: Append_management(tmp_unc_fea, temporary_output,
\* 'NO_TEST')
AppendUncategorized(r) ==
    /\ pc[r] = "append_uncategorized"
    /\ LET w == World(r)
       IN  IF ~Exists(w, ScratchPath(r, UncFea)) \/ ~Exists(w, TemporaryOutput(r))
           THEN Raise(r, "ExecuteError")
           ELSE Proceed(r, "dissolve",
                        Write(w, TemporaryOutput(r),
                              [Read(w, TemporaryOutput(r)) EXCEPT
                                  !.rows = @ \o Read(w, ScratchPath(r, UncFea)).rows]),
                        key[r])

\* ListFields(temporary_output), then Dissolve_management(temporary_output,
\* tmp_ded, every field but the geometry and identity ones)
DissolveOutput(r) ==
    /\ pc[r] = "dissolve"
    /\ LET w == World(r)
       IN  IF ~Exists(w, TemporaryOutput(r)) \/ Exists(w, ScratchPath(r, Ded))
           THEN Raise(r, "ExecuteError")
           ELSE Proceed(r, "generate_output",
                        Write(w, ScratchPath(r, Ded),
                              [Read(w, TemporaryOutput(r)) EXCEPT
                                  !.rows = Dissolve(@)]),
                        key[r])

\* CopyFeatures_management(tmp_ded, output_features)
GenerateOutput(r) ==
    /\ pc[r] = "generate_output"
    /\ LET w == World(r)
       IN  IF ~Exists(w, ScratchPath(r, Ded)) \/ Exists(w, cfg[r].output_features)
           THEN Raise(r, "ExecuteError")
           ELSE Proceed(r, "delete_intermediary",
                        Write(w, cfg[r].output_features, Read(w, ScratchPath(r, Ded))),
                        key[r])

\* __delete_intermediary_data
DeleteIntermediaryData(r) ==
    /\ pc[r] = "delete_intermediary"
    /\ IF cfg[r].workspace # in_memory
       THEN LET delete_list ==
                    ListFeatureClasses(World(r), cfg[r].workspace,
                                       WildCard(self[r].timestamp))
            IN  disk' = Remove(disk, delete_list) /\ mem' = mem
       ELSE mem' = [mem EXCEPT ![r] = EmptyStore] /\ disk' = disk
    /\ pc' = [pc EXCEPT ![r] = "done"]
    /\ cleaned' = [cleaned EXCEPT ![r] = TRUE]
    /\ UNCHANGED <<now, cfg, err, self, key, layers>>

\* the steps that call the geometry engine
EngineSteps ==
    {"copy_target", "make_layer", "add_field", "select", "clip",
     "select_by_location", "make_select_layer", "copy_selection",
     "delete_select_layer", "calculate", "accumulate", "clear_selection",
     "erase", "append_uncategorized", "dissolve", "generate_output",
     "delete_intermediary"}

\* a geometry-engine call fails for a reason of its own (bad geometry, a
\* storage failure, a lock): it raises, having written nothing
EngineFault(r) ==
    /\ pc[r] \in EngineSteps
    /\ Raise(r, "EngineFault")

\* the UTC clock reaches the next second; a run reads it only as it starts
Tick ==
    /\ now < MaxClock
    /\ \E r \in Runs : pc[r] = "init"
    /\ now' = now + 1
    /\ UNCHANGED <<cfg, pc, err, self, key, disk, mem, layers, cleaned>>

(***************************************************************************)
(* The inputs of the runs.                                                 *)
(***************************************************************************)
A == <<"a">>
B == <<"b">>
N == <<"N">>
S == <<"S">>
OBrien == <<"O", "'", "B">>
Seven == <<"7">>
CatName == <<"c", "a", "t">>
Bang == <<"!">>
CostArea == <<"3", " ", "c", "o", "s", "t", "-", "a", "r", "e", "a", "!">>

W_gdb == <<"C", ":", "/", "w", ".", "g", "d", "b">>
W_dir == <<"C", ":", "/", "w">>
OutShp(r) == <<"C", ":", "/", "o", "/", "r">> \o Dec(r) \o DotShp
OutGdb(r) == Join(W_gdb, <<"r">> \o Dec(r))
OutMem(r) == Join(in_memory, <<"r">> \o Dec(r))

\* near the run's wild card, not in it: the timestamp without tmp_ before
\* it, and tmp_ without the timestamp
OldCopy == <<"o", "l", "d", "_">> \o TimestampAt[0]
TmpKeep == <<"t", "m", "p", "_", "k", "e", "e", "p">>

Feature(geom, attr) == [geom |-> geom, attr |-> attr, cat |-> Null]

SeqsUpTo(X, n) == UNION {[1..k -> X] : k \in 0..n}

\* feature classes that are in the workspace before the run
PreStore(workspace, names) ==
    LET dir == IF workspace = in_memory THEN W_gdb ELSE workspace
    IN  [p \in {Join(dir, n) : n \in names} |->
            [rows |-> <<Feature({1}, A)>>, hasfield |-> FALSE]]

DefaultCfg(r) ==
    [target_features       |-> <<Feature({1, 2, 3}, A)>>,
     division_features     |-> [zone_type |-> "String", rows |-> <<Feature({1}, N)>>],
     division_field        |-> "ZONE",
     output_features       |-> OutGdb(r),
     output_field          |-> CatName,
     overrun               |-> FALSE,
     include_uncategorized |-> FALSE,
     workspace             |-> W_gdb]

Start(cfgs, pcs, store) ==
    /\ now = 0
    /\ cfg = cfgs
    /\ pc = pcs
    /\ err = [r \in Runs |-> "none"]
    /\ self = [r \in Runs |-> NoSelf]
    /\ key = [r \in Runs |-> 0]
    /\ disk = store
    /\ mem = [r \in Runs |-> EmptyStore]
    /\ layers = [r \in Runs |-> EmptyStore]
    /\ cleaned = [r \in Runs |-> FALSE]

\* one run, over every kind of configuration
LifecycleConfigs ==
    {[DefaultCfg(1) EXCEPT !.division_features = d, !.division_field = f,
                           !.output_features = o, !.output_field = n,
                           !.overrun = v, !.include_uncategorized = u,
                           !.workspace = w] :
        d \in {[zone_type |-> "String", rows |-> <<>>],
               [zone_type |-> "String", rows |-> <<Feature({1}, N)>>],
               [zone_type |-> "String",
                rows |-> <<Feature({1}, N), Feature({2}, OBrien)>>],
               [zone_type |-> "Integer", rows |-> <<Feature({1}, Seven)>>]},
        f \in {"ZONE", "OBJECTID", "Shape", "NOPE"},
        o \in {OutShp(1), OutGdb(1), OutMem(1)},
        n \in {CatName, Bang},
        v \in BOOLEAN, u \in BOOLEAN,
        w \in {in_memory, W_gdb, W_dir}}

Init ==
    \E c \in LifecycleConfigs, pre \in SUBSET {OldCopy, TmpKeep} :
        Start(<<c, DefaultCfg(2)>>, <<"init", "off">>, PreStore(c.workspace, pre))

\* two runs in the same persistent workspace
ConcurrentConfigs(r) ==
    {[DefaultCfg(r) EXCEPT !.overrun = v, !.include_uncategorized = u] :
        v \in BOOLEAN, u \in BOOLEAN}

InitConcurrent ==
    \E c1 \in ConcurrentConfigs(1), c2 \in ConcurrentConfigs(2) :
        Start(<<c1, c2>>, <<"init", "init">>, EmptyStore)

\* one run over every small target and division dataset.  The order of the
\* rows of an input decides only the order of the rows of the output, and
\* the attribute values and the category values are interchangeable: the
\* rows are taken in one order, "b" only beside "a", "S" only beside "N"
GeomCode(g) ==
    LET f[c \in 0..NumCells] ==
            IF c = 0 THEN 0 ELSE f[c - 1] + (IF c \in g THEN 2 ^ (c - 1) ELSE 0)
    IN  f[NumCells]

RowCode(x, second) == 2 * GeomCode(x.geom) + (IF x.attr = second THEN 1 ELSE 0)

Datasets(first, second, n) ==
    {d \in SeqsUpTo({Feature(g, a) : g \in (SUBSET Cells) \ {{}},
                                     a \in {first, second}}, n) :
        /\ \A i \in 1..(Len(d) - 1) : RowCode(d[i], second) <= RowCode(d[i + 1], second)
        /\ (\E i \in 1..Len(d) : d[i].attr = second)
               => (\E i \in 1..Len(d) : d[i].attr = first)}

GeometryConfigs(r) ==
    {[DefaultCfg(r) EXCEPT !.target_features = t,
                           !.division_features = [zone_type |-> "String", rows |-> d],
                           !.overrun = v, !.include_uncategorized = u] :
        t \in Datasets(A, B, MaxTargets), d \in Datasets(N, S, MaxDivisions),
        v \in BOOLEAN, u \in BOOLEAN}

InitGeometry ==
    \E c \in GeometryConfigs(1) :
        Start(<<c, DefaultCfg(2)>>, <<"init", "off">>, EmptyStore)

\* one run's constructor over output field names: every text of up to
\* MaxNameLen characters of each kind, followed by padding that takes it
\* up to and over both length limits, and the documented example
NameAlphabet == {"3", " ", "-", "_", "c", "!"}

Pad(k) == [i \in 1..k |-> "a"]

NameInputs ==
    {s \o Pad(k) : s \in SeqsUpTo(NameAlphabet, MaxNameLen), k \in {0, 5, 60, 64}}
    \cup {CostArea}

NameConfigs ==
    {[DefaultCfg(1) EXCEPT !.output_field = n, !.workspace = w,
                           !.output_features = o] :
        n \in NameInputs, w \in {in_memory, W_gdb, W_dir},
        o \in {OutShp(1), OutGdb(1), OutMem(1)}}

InitName ==
    \E c \in NameConfigs :
        Start(<<c, DefaultCfg(2)>>, <<"init", "off">>, EmptyStore)

Step(r) ==
    \/ Construct(r)
    \/ CopyTarget(r)
    \/ MakeTargetLayer(r)
    \/ AddCategoryField(r)
    \/ SelectDivision(r)
    \/ ClipTarget(r)
    \/ SelectByLocation(r)
    \/ MakeSelectLayer(r)
    \/ CopySelection(r)
    \/ DeleteSelectLayer(r)
    \/ CalculateCategory(r)
    \/ AccumulateSlice(r)
    \/ ClearSelection(r)
    \/ EraseCategorized(r)
    \/ AppendUncategorized(r)
    \/ DissolveOutput(r)
    \/ GenerateOutput(r)
    \/ DeleteIntermediaryData(r)

Next ==
    \/ Tick
    \/ \E r \in Runs : Step(r)
    \/ \E r \in Runs : EngineFault(r)

Spec == Init /\ [][Next]_vars

SpecConcurrent == InitConcurrent /\ [][Next]_vars

\* the runs that no engine failure ends
NextGeometry == \E r \in Runs : Step(r)

SpecGeometry == InitGeometry /\ [][NextGeometry]_vars

NextName == \E r \in Runs : Construct(r)

SpecName == InitName /\ [][NextName]_vars

(***************************************************************************)
(* What the properties speak of.                                           *)
(***************************************************************************)
Started(r) == pc[r] \notin {"off", "init"}

Plans(r) == self[r].parameter_dictionary

\* the names of the feature classes the run creates in its workspace
ScratchNames(r) ==
    {ScratchName(k, self[r].timestamp) : k \in {Rep, Out, UncFea, Ded}}
    \cup {Plans(r)[k].category_file : k \in 1..Len(Plans(r))}
    \cup {Plans(r)[k].division_file : k \in 1..Len(Plans(r))}

\* the scratch feature classes and layers of the run that exist
ScratchRemaining(r) ==
    {n \in ScratchNames(r) : Exists(World(r), Join(cfg[r].workspace, n))}
    \cup {l \in {TargetLayer(r), SelectLayer(r)} : l \in DOMAIN layers[r]}

OutputExists(r) == Exists(World(r), cfg[r].output_features)

OutputRows(r) == Read(World(r), cfg[r].output_features).rows

\* the configuration errors: no such division field, a division field of
\* the geometry or object id type, an output field name with nothing left
ConfigInvalid(r) ==
    \/ cfg[r].division_field # "ZONE"
    \/ \A i \in 1..Len(cfg[r].output_field) : cfg[r].output_field[i] \in Punctuation

\* p is in the run's namespace: in its workspace, named tmp_ and then
\* anything that holds the run's timestamp
InNamespace(r, p) ==
    /\ DirName(p) = cfg[r].workspace
    /\ StartsWith(BaseName(p), TmpPrefix)
    /\ Contains(SubSeq(BaseName(p), Len(TmpPrefix) + 1, Len(BaseName(p))),
                self[r].timestamp)

RowsAmong(rows, among) ==
    \A i \in 1..Len(rows) : \E j \in 1..Len(among) : among[j] = rows[i]

(***************************************************************************)
(* C1: when a run completes, none of its scratch artifacts (tmp_rep,       *)
(* tmp_lyr, tmp_div_i, tmp_cat_i, tmp_sel_lyr, tmp_unc_fea, tmp_out,       *)
(* tmp_ded) exists any more and its output_features exists.                *)
(***************************************************************************)
C1_OnlyOutputOutlivesRun ==
    \A r \in Runs :
        pc[r] = "done" => ScratchRemaining(r) = {} /\ OutputExists(r)

(***************************************************************************)
(* C2: in a persistent workspace, the cleanup step deletes only artifacts  *)
(* in the run's namespace (tmp_ and the run's timestamp); everything else, *)
(* whatever was there, is left as it was.                                  *)
(***************************************************************************)
C2_CleanupDeletesOnlyNamespace ==
    [][\A r \in Runs :
          (pc[r] = "delete_intermediary" /\ pc'[r] = "done"
           /\ cfg[r].workspace # in_memory)
          => /\ \A p \in DOMAIN disk :
                    ~InNamespace(r, p) => p \in DOMAIN disk' /\ disk'[p] = disk[p]
             /\ mem' = mem
             /\ layers' = layers]_vars

C2_Witness ==
    /\ pc[1] = "done"
    /\ cfg[1].workspace = W_dir
    /\ Join(W_dir, TmpKeep) \in DOMAIN disk
    /\ Join(W_dir, OldCopy) \in DOMAIN disk
    /\ self[1].timestamp = TimestampAt[0]
    /\ \A n \in ScratchNames(1) : Join(W_dir, n) \notin DOMAIN disk

(***************************************************************************)
(* C3: when a geometry-engine call fails and the run aborts, the cleanup   *)
(* of the scratch artifacts created so far is still attempted.             *)
(***************************************************************************)
C3_CleanupAttemptedOnAbort ==
    \A r \in Runs :
        (pc[r] = "aborted" /\ err[r] \in {"EngineFault", "ExecuteError"}
         /\ ScratchRemaining(r) # {})
        => cleaned[r]

(***************************************************************************)
(* C4: output_features comes to exist only in the final copy, when every   *)
(* category plan has been processed and appended, the uncategorized        *)
(* recovery (when enabled) has been appended and the dissolve has been     *)
(* done; a run that aborts earlier has created no output_features.         *)
(***************************************************************************)
C4_OutputOnlyAfterWholePipeline ==
    /\ [](\A r \in Runs :
            OutputExists(r) =>
                /\ pc[r] \in {"delete_intermediary", "done", "aborted"}
                /\ pc[r] = "aborted" => err[r] = "EngineFault"
                /\ key[r] = Len(Plans(r)))
    /\ [][\A r \in Runs :
            (~OutputExists(r) /\ OutputExists(r)')
            => LET w   == World(r)
                   acc == Read(w, TemporaryOutput(r)).rows
                   ded == Read(w, ScratchPath(r, Ded)).rows
               IN  /\ pc[r] = "generate_output"
                   /\ key[r] = Len(Plans(r))
                   /\ \A k \in 1..Len(Plans(r)) :
                        LET f == Join(cfg[r].workspace, Plans(r)[k].category_file)
                        IN  Exists(w, f) /\ RowsAmong(Read(w, f).rows, acc)
                   /\ cfg[r].include_uncategorized
                        => /\ Exists(w, ScratchPath(r, UncFea))
                           /\ RowsAmong(Read(w, ScratchPath(r, UncFea)).rows, acc)
                   /\ \A i \in 1..Len(acc) : \E j \in 1..Len(ded) :
                        /\ DissolveKey(ded[j]) = DissolveKey(acc[i])
                        /\ acc[i].geom \subseteq ded[j].geom
                   /\ OutputRows(r)' = ded]_vars

C4_Witness ==
    /\ pc[1] = "done"
    /\ OutputExists(1)
    /\ cfg[1].include_uncategorized
    /\ ~cfg[1].overrun
    /\ Len(Plans(1)) = 2
    /\ Len(OutputRows(1)) = 3
    /\ \E j \in 1..3 : OutputRows(1)[j].cat = OBrien /\ OutputRows(1)[j].geom = {2}
    /\ \E j \in 1..3 : OutputRows(1)[j].cat = Null /\ OutputRows(1)[j].geom = {3}

(***************************************************************************)
(* C5: each configuration error (no such division field, an output field   *)
(* name that sanitizes to nothing, a division field of the geometry or an  *)
(* identity type) aborts the run before any scratch artifact is created,   *)
(* and no output is created.                                               *)
(***************************************************************************)
C5_ConfigErrorsBeforeGeometry ==
    \A r \in Runs :
        ConfigInvalid(r) => ScratchRemaining(r) = {} /\ ~OutputExists(r)

(***************************************************************************)
(* C6: a division dataset with no records is not an error: the run aborts  *)
(* only if the engine itself fails, and its output holds the uncategorized *)
(* leftover (the whole target, no category value) when that is enabled and *)
(* nothing otherwise.                                                      *)
(***************************************************************************)
C6_EmptyDivisionIsNotAnError ==
    \A r \in Runs :
        (cfg[r].division_features.rows = <<>> /\ ~ConfigInvalid(r))
        => /\ pc[r] = "aborted" => err[r] = "EngineFault"
           /\ (pc[r] = "delete_intermediary" /\ OutputExists(r))
                => IF cfg[r].include_uncategorized
                   THEN /\ UnionGeom(OutputRows(r)) = UnionGeom(cfg[r].target_features)
                        /\ \A i \in 1..Len(OutputRows(r)) : OutputRows(r)[i].cat = Null
                   ELSE OutputRows(r) = <<>>

(***************************************************************************)
(* C7: two runs in the same persistent workspace use disjoint sets of      *)
(* intermediate names, and within a run the names are pairwise distinct.   *)
(***************************************************************************)
C7_DisjointScratchNames ==
    /\ \A r1, r2 \in Runs :
          (r1 # r2 /\ Started(r1) /\ Started(r2)
           /\ cfg[r1].workspace = cfg[r2].workspace)
          => ScratchNames(r1) \cap ScratchNames(r2) = {}
    /\ \A r \in Runs :
          Started(r) => Cardinality(ScratchNames(r)) = 4 + 2 * Len(Plans(r))

(***************************************************************************)
(* The geometry of the inputs.                                             *)
(***************************************************************************)
\* the run has written its output
Finished(r) == pc[r] \in {"delete_intermediary", "done"} /\ OutputExists(r)

Targets(r) == cfg[r].target_features

Divisions(r) == cfg[r].division_features.rows

Categories(r) == {Divisions(r)[i].attr : i \in 1..Len(Divisions(r))}

\* the area of the division polygons of category c
CategoryArea(r, c) ==
    UNION {Divisions(r)[i].geom :
               i \in {i \in 1..Len(Divisions(r)) : Divisions(r)[i].attr = c}}

\* the categories whose division polygons the geometry g intersects
Touched(r, g) == {c \in Categories(r) : g \cap CategoryArea(r, c) # {}}

RowsWith(rows, attr, cat) ==
    {j \in 1..Len(rows) : rows[j].attr = attr /\ rows[j].cat = cat}

(***************************************************************************)
(* C8: in bounded mode, with include_uncategorized the output's geometry   *)
(* is the target's geometry and what lies outside every division polygon   *)
(* carries no category value; without it the output holds no geometry      *)
(* outside every division polygon.                                         *)
(***************************************************************************)
C8_BoundedCoverage ==
    \A r \in Runs :
        (Finished(r) /\ ~cfg[r].overrun)
        => LET out     == OutputRows(r)
               target  == UnionGeom(Targets(r))
               covered == UnionGeom(Divisions(r))
               nulls   == {j \in 1..Len(out) : out[j].cat = Null}
           IN  IF cfg[r].include_uncategorized
               THEN /\ UnionGeom(out) = target
                    /\ \A j \in 1..Len(out) :
                          out[j].geom \ covered # {} => out[j].cat = Null
                    /\ target \ covered \subseteq UNION {out[j].geom : j \in nulls}
               ELSE UnionGeom(out) \subseteq target \cap covered

C8_Witness ==
    /\ pc[1] = "done"
    /\ OutputExists(1)
    /\ ~cfg[1].overrun
    /\ cfg[1].include_uncategorized
    /\ Cardinality(Categories(1)) = 2
    /\ UnionGeom(Targets(1)) \ UnionGeom(Divisions(1)) # {}
    /\ \E j \in 1..Len(OutputRows(1)) : OutputRows(1)[j].cat = Null
    /\ \E j \in 1..Len(OutputRows(1)) : OutputRows(1)[j].cat = S

(***************************************************************************)
(* C9, as claimed: a target feature that intersects the division polygons  *)
(* of the categories S comes out, with overrun, as its own full geometry   *)
(* once for each category of S and for no other (also after the dissolve); *)
(* without overrun it comes out split by category, the portions of two     *)
(* categories not overlapping.                                             *)
(***************************************************************************)
C9_FullGeometryPerCategoryOrDisjointSplit ==
    \A r \in Runs :
        Finished(r) =>
            \A i \in 1..Len(Targets(r)) :
                LET f   == Targets(r)[i]
                    out == OutputRows(r)
                    own == {j \in 1..Len(out) : out[j].attr = f.attr}
                IN  IF cfg[r].overrun
                    THEN /\ \A c \in Touched(r, f.geom) :
                               Cardinality({j \in own : out[j].cat = c
                                                /\ out[j].geom = f.geom}) = 1
                         /\ Cardinality({j \in own : out[j].cat # Null
                                             /\ out[j].geom = f.geom})
                               = Cardinality(Touched(r, f.geom))
                    ELSE /\ \A c \in Touched(r, f.geom) :
                               \E j \in own :
                                   /\ out[j].cat = c
                                   /\ f.geom \cap CategoryArea(r, c) \subseteq out[j].geom
                         /\ \A j, k \in own :
                               (out[j].cat # out[k].cat /\ out[j].cat # Null
                                /\ out[k].cat # Null)
                               => out[j].geom \cap out[k].geom = {}

(***************************************************************************)
(* C9, amended: for each tuple of attribute values a and each category c   *)
(* the output holds at most one feature tagged c with the values a.  With  *)
(* overrun its geometry is the union of the full geometries of the target  *)
(* features with the values a that intersect c: a target feature's own     *)
(* geometry, once for each category it intersects and for no other, when   *)
(* no other target feature has its values.  Without overrun its geometry   *)
(* is the part of those target features inside c's division polygons, so   *)
(* the portions of two categories overlap only where the division polygons *)
(* of the two categories overlap.                                          *)
(***************************************************************************)
C9_UnionPerAttributesAndCategory ==
    \A r \in Runs :
        Finished(r) =>
            LET out == OutputRows(r)
                T   == Targets(r)
            IN  /\ \A i \in 1..Len(T), c \in Categories(r) :
                      LET a    == T[i].attr
                          same == {k \in 1..Len(T) : T[k].attr = a}
                          area == CategoryArea(r, c)
                          G    == IF cfg[r].overrun
                                  THEN UNION {T[k].geom :
                                           k \in {k \in same : T[k].geom \cap area # {}}}
                                  ELSE UNION {T[k].geom \cap area : k \in same}
                          hits == RowsWith(out, a, c)
                      IN  /\ G = {} => hits = {}
                          /\ G # {} => Cardinality(hits) = 1
                                       /\ \A j \in hits : out[j].geom = G
                          /\ (cfg[r].overrun /\ same = {i})
                                => \A j \in 1..Len(out) :
                                      (out[j].attr = a /\ out[j].cat # Null)
                                      => /\ out[j].geom = T[i].geom
                                         /\ out[j].cat \in Touched(r, T[i].geom)
                /\ ~cfg[r].overrun
                      => \A j, k \in 1..Len(out) :
                            (out[j].cat # Null /\ out[k].cat # Null)
                            => out[j].geom \cap out[k].geom
                                   \subseteq CategoryArea(r, out[j].cat)
                                             \cap CategoryArea(r, out[k].cat)

C9_Witness ==
    /\ pc[1] = "done"
    /\ OutputExists(1)
    /\ cfg[1].overrun
    /\ Len(Targets(1)) = 2
    /\ Targets(1)[1].attr = Targets(1)[2].attr
    /\ Touched(1, Targets(1)[1].geom) = {N, S}
    /\ Touched(1, Targets(1)[2].geom) = {S}
    /\ \E j \in RowsWith(OutputRows(1), A, S) :
          OutputRows(1)[j].geom = Targets(1)[1].geom \cup Targets(1)[2].geom
    /\ \E j \in RowsWith(OutputRows(1), A, N) :
          OutputRows(1)[j].geom = Targets(1)[1].geom

(***************************************************************************)
(* C10: the output field name is the given name without its punctuation    *)
(* (the underscore kept), with Field_ before it when it then starts with a *)
(* digit, with every space turned into an underscore, cut to 64 characters *)
(* when the workspace is in_memory or holds .gdb and the output path holds *)
(* no .shp, and to 10 otherwise; "3 cost-area!" gives Field_3_costarea or  *)
(* Field_3_co.  A name of punctuation only leaves nothing to test for a    *)
(* digit and the constructor raises.                                       *)
(***************************************************************************)
C10_FieldNameSanitization ==
    \A r \in Runs :
        Started(r) =>
            LET c     == cfg[r]
                kept  == SelectSeq(c.output_field, LAMBDA x : x \notin Punctuation)
                long  == (c.workspace = in_memory \/ Contains(c.workspace, DotGdb))
                         /\ ~Contains(c.output_features, DotShp)
                limit == IF long THEN 64 ELSE 10
                pre   == IF kept[1] \in Digits THEN FieldPrefix \o kept ELSE kept
                full  == [i \in 1..Len(pre) |-> IF pre[i] = " " THEN "_" ELSE pre[i]]
                got   == self[r].output_field
            IN  IF kept = <<>>
                THEN pc[r] = "aborted" /\ err[r] = "IndexError"
                ELSE /\ pc[r] = "copy_target"
                     /\ Len(got) <= limit
                     /\ got = [i \in 1..(IF Len(full) < limit THEN Len(full) ELSE limit)
                                  |-> full[i]]
                     /\ self[r].output_field_properties["field_name"] = got
                     /\ c.output_field = CostArea
                           => got = IF long
                                    THEN <<"F", "i", "e", "l", "d", "_", "3", "_", "c",
                                           "o", "s", "t", "a", "r", "e", "a">>
                                    ELSE <<"F", "i", "e", "l", "d", "_", "3", "_", "c",
                                           "o">>

C10_Witness ==
    /\ pc[1] = "copy_target"
    /\ cfg[1].output_field = CostArea
    /\ cfg[1].workspace = W_gdb
    /\ Contains(cfg[1].output_features, DotShp)
    /\ self[1].output_field = <<"F", "i", "e", "l", "d", "_", "3", "_", "c", "o">>

=============================================================================
